---- MODULE Spec2Model ----
(***************************************************************************)
(* A model of PaperService (src/app/renderer/services/paper-service.ts):   *)
(* the update pipeline, the public operations with their guards and error  *)
(* boundaries, delete, the categorizer maps, the periodic preprint         *)
(* rescrape, update calls that overlap, and the filter compiler            *)
(* PaperFilterOptions of the same file.                                    *)
(***************************************************************************)
EXTENDS Integers, Sequences, FiniteSets, TLC

\* ------------------------------------------------------------------ bounds
\* The largest batch handed to update.
MaxDrafts == 2

\* ------------------------------------------------------------------ values
\* The null of updatedPaperEntityDrafts and of a move that yields no result.
NULL == [null |-> TRUE]
\* A chunkRun result slot whose worker has not finished yet.
PENDING == [pending |-> TRUE]

\* A file reference: absolute or not, and its path segments. "" has none.
EmptyURL == [abs |-> FALSE, segs |-> <<>>]
AbsURL(segs) == [abs |-> TRUE, segs |-> segs]
RelURL(segs) == [abs |-> FALSE, segs |-> segs]

\* path.isAbsolute(url)
isAbsolute(url) == url.abs

\* path.basename(url): the last segment, as a relative name; "" for "".
basename(url) ==
    IF url.segs = <<>> THEN EmptyURL
    ELSE RelURL(<<url.segs[Len(url.segs)]>>)

Range(s) == {s[i] : i \in 1..Len(s)}

\* The shapes of the drafts a caller hands to update: a fresh import with an
\* absolute primary file and mixed supplementary references, a record whose
\* primary reference is relative but nested, a draft without a primary file,
\* and a record whose files are in managed storage already.
DraftShapes ==
    { [mainURL |-> AbsURL(<<"tmp", "a.pdf">>),
       supURLs |-> <<AbsURL(<<"tmp", "s.pdf">>), RelURL(<<"t.pdf">>)>>],
      [mainURL |-> RelURL(<<"sub", "b.pdf">>), supURLs |-> <<>>],
      [mainURL |-> EmptyURL, supURLs |-> <<AbsURL(<<"tmp", "u.pdf">>)>>],
      [mainURL |-> RelURL(<<"c.pdf">>), supURLs |-> <<RelURL(<<"d.pdf">>)>>] }

\* A draft: its identity and its file references.
Draft(id, shape) ==
    [id |-> id, mainURL |-> shape.mainURL, supURLs |-> shape.supURLs]

\* The batches of n drafts, the draft at index i having identity i.
Batches(n) ==
    { [i \in 1..n |-> Draft(i, sh[i])] : sh \in [1..n -> DraftShapes] }


\* The rescrape period and the tolerance of its guard, in seconds.
Period == 7 * 86400
Tolerance == 10

\* The largest number of scrapePreprint calls in a behaviour.
MaxCalls == 2

\* A scrapePreprint call that has not been made.
NoCall == [pc |-> "idle", firedAt |-> 0, passed |-> FALSE, queried |-> FALSE,
           scraped |-> FALSE, scrapeFailed |-> FALSE, stamped |-> FALSE]

\* How often the clock advances in a behaviour, and by how much at a time:
\* a second, just under the guard's threshold, and the threshold.
MaxTicks == 3
TickSteps == {1, Period - Tolerance - 1, Period - Tolerance}

\* ------------------------------------------------------------------- state
VARIABLES
    dbInitializing,              \* _databaseCore.getState("dbInitializing")
    pc,                          \* the position of the running update call
    input,                       \* the batch as the caller handed it over
    paperEntityDrafts,           \* the caller's draft objects (mutated in place)
    workerLog,                   \* per draft, what its relocation worker did
    results,                     \* chunkRun's results, index-aligned
    errors,                      \* chunkRun's errors: the indices that threw
    fileMovedPaperEntityDrafts,  \* the batch after normalisation
    updatedPaperEntityDrafts,    \* per store write, the draft or null
    writeLog,                    \* the store writes attempted, in order
    rows,                        \* the store: per draft, its row or null
    files,                       \* managed storage: per draft, the files in it
    removeCalls,                 \* _fileService.remove issued, not finished
    moveFileCalls,               \* _fileService.moveFile issued
    ri,                          \* the index of the reconciliation loop
    cacheReq,                    \* the updateFullTextCache requests made
    cacheSettled,                \* the requests that have finished, and how
    ret,                         \* what update returned, <<>> before
    threw,                       \* whether the error boundary caught a throw
    op,                          \* the public operation that was called
    opc,                         \* the position of that operation
    effects,                     \* the collaborators the call has used so far
    faults,                      \* the collaborators that failed during the call
    opRet,                       \* what the operation returned
    caught,                      \* whether its error boundary caught a throw
    now,                         \* Math.round(Date.now() / 1000)
    lastRematchTime,             \* the preference "lastRematchTime"
    allowRoutineMatch,           \* the preference "allowRoutineMatch"
    armed,                       \* whether the scheduler task is registered
    timerAt,                     \* when the task last fired, -1 before it has
    cyc,                         \* per scrapePreprint call, where it is
    ticks,                       \* how often the clock has advanced
    delEntities,                 \* delete: the rows the call names
    rowsDeleted,                 \* delete: whether the store removed them
    toBeDeletedFiles,            \* delete: the files the store reported
    removeFileCalls,             \* delete: the removeFile calls and their state
    evicted,                     \* delete: the identities evicted from the cache
    catOp,                       \* the operation that applies a categorizer
    categorizer,                 \* the categorizer it is given
    type,                        \* the CategorizerType it is given
    paperEntityDraft,            \* the draft: its tags, its folders, another field
    draftBefore,                 \* the draft as it was before the first call
    applied,                     \* how often the operation has been applied
    search,                      \* PaperFilterOptions.search, as tokens
    searchMode,                  \* PaperFilterOptions.searchMode
    flaged,                      \* PaperFilterOptions.flaged
    filters,                     \* PaperFilterOptions.filters
    compiles,                    \* how often update has compiled the options
    conCalls,                    \* concurrent calls: per call, where it is
    thread,                      \* the call that is running, NoThread if none
    inWrite,                     \* the calls inside _paperEntityRepository.update
    storeWrites                  \* the store writes begun, by call, in order

pipeVars ==
    <<dbInitializing, pc, input, paperEntityDrafts, workerLog, results, errors,
      fileMovedPaperEntityDrafts, updatedPaperEntityDrafts, writeLog, rows,
      files, removeCalls, moveFileCalls, ri, cacheReq, cacheSettled, ret,
      threw>>

opVars == <<op, opc, opRet, caught>>

rsVars ==
    <<now, lastRematchTime, allowRoutineMatch, armed, timerAt, cyc, ticks>>

delVars ==
    <<delEntities, rowsDeleted, toBeDeletedFiles, removeFileCalls, evicted>>

catVars ==
    <<catOp, categorizer, type, paperEntityDraft, draftBefore, applied>>

filterVars == <<search, searchMode, flaged, filters, compiles>>

conVars == <<conCalls, thread, inWrite, storeWrites>>

auxVars == <<delVars, catVars, filterVars, conVars>>

vars == <<pipeVars, opVars, effects, faults, rsVars, auxVars>>

NONE == [none |-> TRUE]

N == Len(paperEntityDrafts)

\* ----------------------------------------------------- file collaborator
\* The managed name a relocated file gets: storage is flat, keyed by name.
ManagedName(url) == basename(url)

\* The references of a draft that a relocation moves: the absolute ones.
ToRelocate(d) ==
    {u \in {d.mainURL} \cup Range(d.supURLs) : u # EmptyURL /\ isAbsolute(u)}

\* _fileService.move(draft, cut) when it relocates: absolute references become
\* managed names, the others stay.
move(d) ==
    LET reloc(u) == IF u # EmptyURL /\ isAbsolute(u) THEN ManagedName(u) ELSE u
    IN  [d EXCEPT !.mainURL = reloc(d.mainURL),
                  !.supURLs = [k \in 1..Len(d.supURLs) |->
                                   reloc(d.supURLs[k])]]

\* The files of managed storage that _fileService.remove(draft) removes.
RemovedBy(d) == ({d.mainURL} \cup Range(d.supURLs)) \ {EmptyURL}

\* The outcomes of one relocation worker's call of move.
MoveOutcomes == {"moved", "null", "throw"}

\* The outcomes of one _paperEntityRepository.update: the row is written
\* under the draft's file name, or under another name the store assigns
\* because the name is taken, or the write fails or throws.
WriteOutcomes == {"ok", "renamed", "false", "throw"}

\* success, as the persistence loop sees it.
Success(out) == out \in {"ok", "renamed"}

\* The name the store assigns when the draft's file name is taken.
StoreAssigned(url) == [abs |-> FALSE, segs |-> url.segs, dup |-> TRUE]

\* The row the store holds after a successful write of draft d.
Stored(d, out) ==
    IF out = "renamed" THEN [d EXCEPT !.mainURL = StoreAssigned(d.mainURL)]
    ELSE d

\* --------------------------------------------------------- update, stage 1
\* An access check that leaves the reference of a missing file in place.
AccessCheckKept(d, accessible) == d

\* The worker's access check: a primary reference that is non-empty and not
\* accessible is cleared on the draft object itself.
AccessCheck(d, accessible) ==
    IF ~accessible /\ d.mainURL # EmptyURL
    THEN [d EXCEPT !.mainURL = EmptyURL]
    ELSE d

\* A fallback that drops the failed draft instead of passing it through.
fallbackDropped(d) == NULL

\* chunkRun's fallback as update passes it: the draft itself.
fallback(d) == d

\* What chunkRun stores at a worker's position.
WorkerResult(d, out) ==
    CASE out = "moved" -> move(d)
      [] out = "null"  -> NULL
      [] out = "throw" -> fallback(d)

\* What chunkRun appends to errors for item i.
WorkerErrors(i, out) == IF out = "throw" THEN {i} ELSE {}

\* --------------------------------------------------------- update, stage 2
\* A normalisation that reduces every primary reference to its base name and
\* blanks none.
NormalizeMainNoBlank(url) == basename(url)

NormalizeMain(url) ==
    IF url # EmptyURL /\ isAbsolute(url) THEN EmptyURL ELSE basename(url)

NormalizeSups(urls) == SelectSeq(urls, LAMBDA u : ~isAbsolute(u))

Normalize(d) ==
    [d EXCEPT !.mainURL = NormalizeMain(d.mainURL),
              !.supURLs = NormalizeSups(d.supURLs)]

\* --------------------------------------------------------- update, stage 3
\* A persistence loop that records every draft as written.
UpdatedAlways(d, out) == d

\* success ? paperEntity : null
Updated(d, out) == IF Success(out) THEN d ELSE NULL

\* --------------------------------------------------------- update, stage 5
\* A return value that keeps the null entries of the failed drafts.
successfulPadded(updated) == updated

successfulEntityDrafts(updated) == SelectSeq(updated, LAMBDA d : d # NULL)

\* An update that makes no cache request.
RequestCacheNone(reqs, drafts) == reqs

\* this._cacheService.updateFullTextCache(drafts): one more request.
RequestCache(reqs, drafts) == Append(reqs, drafts)


\* ------------------------------------------------------------ update: steps
\* The pipeline's variables before a call.
PipeIdle(batch) ==
    /\ input = batch
    /\ paperEntityDrafts = batch
    /\ workerLog = [i \in 1..Len(batch) |-> NONE]
    /\ results = [i \in 1..Len(batch) |-> PENDING]
    /\ errors = {}
    /\ fileMovedPaperEntityDrafts = <<>>
    /\ updatedPaperEntityDrafts = <<>>
    /\ writeLog = <<>>
    /\ rows = [i \in 1..Len(batch) |-> NULL]
    /\ files = [i \in 1..Len(batch) |-> {}]
    /\ removeCalls = {}
    /\ moveFileCalls = {}
    /\ ri = 1
    /\ cacheReq = <<>>
    /\ cacheSettled = {}
    /\ ret = <<>>
    /\ threw = FALSE

\* The error boundary of update (errorcatching, default []): a throw that
\* escapes ends the call with the empty list.
Caught ==
    /\ threw' = TRUE
    /\ ret' = <<>>
    /\ pc' = "done"

\* update's guard: an initializing store ends the call with [].
UpdateGuard ==
    /\ pc = "call"
    /\ IF dbInitializing
       THEN /\ ret' = <<>>
            /\ pc' = "done"
       ELSE /\ pc' = "relocate"
            /\ ret' = ret
    /\ UNCHANGED <<dbInitializing, input, paperEntityDrafts, workerLog, results,
                   errors, fileMovedPaperEntityDrafts,
                   updatedPaperEntityDrafts, writeLog, rows, files,
                   removeCalls, moveFileCalls, ri, cacheReq, cacheSettled, threw>>
    /\ UNCHANGED <<effects, faults>>
    /\ UNCHANGED <<opVars, rsVars, auxVars>>

\* One relocation worker of chunkRun, for the draft at index i: the access
\* check (the empty reference is never accessible), the move, and chunkRun's
\* capture of a throw.
RelocateWorker(i) ==
    /\ pc = "relocate"
    /\ results[i] = PENDING
    /\ \E accessible \in BOOLEAN, out \in MoveOutcomes :
          LET d == AccessCheck(paperEntityDrafts[i], accessible)
          IN  /\ paperEntityDrafts[i].mainURL = EmptyURL => accessible = FALSE
              /\ paperEntityDrafts' = [paperEntityDrafts EXCEPT ![i] = d]
              /\ workerLog' = [workerLog EXCEPT ![i] =
                     [accessible |-> accessible, moveArg |-> d, out |-> out]]
              /\ results' = [results EXCEPT ![i] = WorkerResult(d, out)]
              /\ errors' = errors \cup WorkerErrors(i, out)
              /\ files' = [files EXCEPT ![i] =
                              IF out = "moved"
                              THEN {ManagedName(u) : u \in ToRelocate(d)}
                              ELSE {}]
              /\ faults' = faults \cup
                               (IF out = "throw" THEN {"file"} ELSE {})
    /\ UNCHANGED <<dbInitializing, pc, input, fileMovedPaperEntityDrafts,
                   updatedPaperEntityDrafts, writeLog, rows, removeCalls,
                   moveFileCalls, ri, cacheReq, cacheSettled, ret, threw>>
    /\ effects' = effects \cup {"file"}
    /\ UNCHANGED <<opVars, rsVars, auxVars>>

\* After chunkRun: the errors are logged and the batch is normalised. A null
\* result makes the map throw (a property read on null).
NormalizePaths ==
    /\ pc = "relocate"
    /\ \A i \in 1..N : results[i] # PENDING
    /\ IF \E i \in 1..N : results[i] = NULL
       THEN /\ Caught
            /\ UNCHANGED <<fileMovedPaperEntityDrafts, paperEntityDrafts>>
       ELSE /\ fileMovedPaperEntityDrafts' =
                  [i \in 1..N |-> Normalize(results[i])]
            \* a passed-through draft is the caller's object: it changes too
            /\ paperEntityDrafts' =
                  [i \in 1..N |-> IF i \in errors THEN Normalize(results[i])
                                  ELSE paperEntityDrafts[i]]
            /\ pc' = "realm"
            /\ UNCHANGED <<ret, threw>>
    /\ UNCHANGED <<dbInitializing, input, workerLog, results, errors,
                   updatedPaperEntityDrafts, writeLog, rows, files,
                   removeCalls, moveFileCalls, ri, cacheReq, cacheSettled>>
    /\ UNCHANGED <<effects, faults>>
    /\ UNCHANGED <<opVars, rsVars, auxVars>>

\* await this._databaseCore.realm(): the handle, or a throw.
AcquireRealm ==
    /\ pc = "realm"
    /\ \E ok \in BOOLEAN :
          IF ok
          THEN /\ pc' = (IF N = 0 THEN "cache" ELSE "persist")
               /\ UNCHANGED <<ret, threw, faults>>
          ELSE /\ Caught
               /\ faults' = faults \cup {"store"}
    /\ UNCHANGED <<dbInitializing, input, paperEntityDrafts, workerLog, results,
                   errors, fileMovedPaperEntityDrafts,
                   updatedPaperEntityDrafts, writeLog, rows, files,
                   removeCalls, moveFileCalls, ri, cacheReq, cacheSettled>>
    /\ effects' = effects \cup {"store"}
    /\ UNCHANGED <<opVars, rsVars, auxVars>>

\* One pass of the persistence loop: the store write of the next draft.
PersistOne ==
    /\ pc = "persist"
    /\ LET k == Len(updatedPaperEntityDrafts) + 1
           d == fileMovedPaperEntityDrafts[k]
       IN  \E out \in WriteOutcomes :
              /\ out = "renamed" => d.mainURL # EmptyURL
              /\ writeLog' = Append(writeLog, [index |-> k, draft |-> d,
                                               success |-> Success(out)])
              /\ rows' = IF Success(out)
                         THEN [rows EXCEPT ![k] = Stored(d, out)]
                         ELSE rows
              /\ updatedPaperEntityDrafts' =
                    Append(updatedPaperEntityDrafts, Updated(d, out))
              /\ pc' = IF k = N THEN "reconcile" ELSE "persist"
              /\ faults' = faults \cup
                               (IF out = "throw" THEN {"store"} ELSE {})
    /\ UNCHANGED <<dbInitializing, input, paperEntityDrafts, workerLog, results,
                   errors, fileMovedPaperEntityDrafts, files, removeCalls,
                   moveFileCalls, ri, cacheReq, cacheSettled, ret, threw>>
    /\ effects' = effects \cup {"store"}
    /\ UNCHANGED <<opVars, rsVars, auxVars>>

\* One pass of the loop over the written drafts: remove the files of a failed
\* draft, rename the file of a draft whose name changed. Neither call is
\* awaited.
ReconcileOne ==
    /\ pc = "reconcile"
    /\ LET fileMovedPaperEntityDraft == fileMovedPaperEntityDrafts[ri]
           updatedPaperEntityDraft == updatedPaperEntityDrafts[ri]
       IN  IF updatedPaperEntityDraft = NULL
           THEN /\ removeCalls' = removeCalls \cup {ri}
                /\ UNCHANGED moveFileCalls
           ELSE IF fileMovedPaperEntityDraft.mainURL
                      # updatedPaperEntityDraft.mainURL
           THEN /\ moveFileCalls' = moveFileCalls \cup {ri}
                /\ UNCHANGED removeCalls
           ELSE UNCHANGED <<removeCalls, moveFileCalls>>
    /\ ri' = ri + 1
    /\ pc' = IF ri = N THEN "cache" ELSE "reconcile"
    /\ UNCHANGED <<dbInitializing, input, paperEntityDrafts, workerLog, results,
                   errors, fileMovedPaperEntityDrafts,
                   updatedPaperEntityDrafts, writeLog, rows, files, cacheReq,
                   cacheSettled, ret, threw, faults>>
    /\ effects' = effects \cup (IF updatedPaperEntityDrafts[ri] = NULL
                                  THEN {"file"} ELSE {})
    /\ UNCHANGED <<opVars, rsVars, auxVars>>

\* The cache refresh is requested, not awaited, and update returns.
CacheAndReturn ==
    /\ pc = "cache"
    /\ cacheReq' = RequestCache(cacheReq,
                        successfulEntityDrafts(updatedPaperEntityDrafts))
    /\ ret' = successfulEntityDrafts(updatedPaperEntityDrafts)
    /\ pc' = "done"
    /\ UNCHANGED cacheSettled
    /\ UNCHANGED <<dbInitializing, input, paperEntityDrafts, workerLog, results,
                   errors, fileMovedPaperEntityDrafts,
                   updatedPaperEntityDrafts, writeLog, rows, files,
                   removeCalls, moveFileCalls, ri, threw>>
    /\ effects' = effects \cup {"cache"}
    /\ UNCHANGED faults
    /\ UNCHANGED <<opVars, rsVars, auxVars>>

\* A cache refresh that update requested finishes, or fails. Nothing waits
\* for it.
CacheRefreshSettles(k) ==
    /\ k \in 1..Len(cacheReq)
    /\ \A c \in cacheSettled : c.req # k
    /\ \E ok \in BOOLEAN :
          /\ cacheSettled' = cacheSettled \cup {[req |-> k, ok |-> ok]}
          /\ faults' = faults \cup (IF ok THEN {} ELSE {"cache"})
    /\ UNCHANGED <<dbInitializing, pc, input, paperEntityDrafts, workerLog,
                   results, errors, fileMovedPaperEntityDrafts,
                   updatedPaperEntityDrafts, writeLog, rows, files,
                   removeCalls, moveFileCalls, ri, cacheReq, ret, threw>>
    /\ UNCHANGED effects
    /\ UNCHANGED <<opVars, rsVars, auxVars>>

\* A _fileService.remove that update issued finishes: the files the draft
\* names leave managed storage.
RemoveDone(i) ==
    /\ i \in removeCalls
    /\ files' = [files EXCEPT ![i] =
                    files[i] \ RemovedBy(fileMovedPaperEntityDrafts[i])]
    /\ removeCalls' = removeCalls \ {i}
    /\ UNCHANGED <<dbInitializing, pc, input, paperEntityDrafts, workerLog,
                   results, errors, fileMovedPaperEntityDrafts,
                   updatedPaperEntityDrafts, writeLog, rows, moveFileCalls,
                   ri, cacheReq, cacheSettled, ret, threw>>
    /\ UNCHANGED <<effects, faults>>
    /\ UNCHANGED <<opVars, rsVars, auxVars>>

\* ------------------------------------------------------- public operations
\* The largest batch an operation other than update hands to update.
MaxOpDrafts == 1

\* The list-returning operations, create left out.
ListOpsNoCreate == {"load", "loadByIds", "update", "createIntoCategorizer"}

\* The list-returning operations.
ListOps == {"load", "loadByIds", "update", "create", "createIntoCategorizer"}
\* The public operations.
Ops == {"load", "loadByIds", "update", "updateWithCategorizer", "delete",
        "deleteSup", "create", "createIntoCategorizer", "scrape",
        "scrapePreprint", "renameAll", "migrateLocaltoCloud"}

\* The operations whose errorcatching names no default.
VoidOps == Ops \ ListOps

Void == [kind |-> "void"]
List(l) == [kind |-> "list", value |-> l]

\* errorcatching's default for the operation: [] for the list-returning
\* operations and for updateWithCategorizer, nothing for the others.
Default(o) ==
    IF o \in ListOps \cup {"updateWithCategorizer"} THEN List(<<>>) ELSE Void

\* What a collaborator hands back as drafts: scraped or loaded.
OpBatches == UNION {Batches(n) : n \in 0..MaxOpDrafts}

\* this.update(batch) is called: the pipeline starts on the batch.
StartUpdate(batch) ==
    /\ pc' = "call"
    /\ input' = batch
    /\ paperEntityDrafts' = batch
    /\ workerLog' = [i \in 1..Len(batch) |-> NONE]
    /\ results' = [i \in 1..Len(batch) |-> PENDING]
    /\ errors' = {}
    /\ fileMovedPaperEntityDrafts' = <<>>
    /\ updatedPaperEntityDrafts' = <<>>
    /\ writeLog' = <<>>
    /\ rows' = [i \in 1..Len(batch) |-> NULL]
    /\ files' = [i \in 1..Len(batch) |-> {}]
    /\ removeCalls' = {}
    /\ moveFileCalls' = {}
    /\ ri' = 1
    /\ cacheReq' = <<>>
    /\ cacheSettled' = {}
    /\ ret' = <<>>
    /\ threw' = FALSE

PipeUnchanged ==
    UNCHANGED <<pc, input, paperEntityDrafts, workerLog, results, errors,
                fileMovedPaperEntityDrafts, updatedPaperEntityDrafts,
                writeLog, rows, files, removeCalls, moveFileCalls, ri,
                cacheReq, cacheSettled, ret, threw>>

\* The operation ends with result r, having used the collaborators in used,
\* those in failed having failed.
End(r, used, failed) ==
    /\ opc' = "done"
    /\ opRet' = r
    /\ effects' = effects \cup used
    /\ faults' = faults \cup failed
    /\ op' = op
    /\ PipeUnchanged

\* The operation returns r.
Finish(r, used) ==
    /\ End(r, used, {})
    /\ UNCHANGED caught

\* A collaborator's throw escapes the operation's body: errorcatching logs it
\* and the operation returns its default.
Throw(used, failed) ==
    /\ End(Default(op), used, failed)
    /\ caught' = TRUE

\* The operation goes on to position at, calling update on batch; a call it
\* made before (one with an error boundary of its own) had failed in failed.
CallUpdateAfter(at, batch, used, failed) ==
    /\ opc' = at
    /\ effects' = effects \cup used
    /\ faults' = faults \cup failed
    /\ UNCHANGED <<op, opRet, caught>>
    /\ StartUpdate(batch)

\* The operation goes on to position at, calling update on batch.
CallUpdate(at, batch, used) == CallUpdateAfter(at, batch, used, {})

\* load: the guard, then the store query and, for a full-text query, the
\* cache's filter.
Load ==
    /\ op = "load" /\ opc = "start"
    /\ IF dbInitializing
       THEN Finish(List(<<>>), {})
       ELSE \E fulltext \in BOOLEAN, ok \in BOOLEAN, found \in OpBatches :
               IF ~ok THEN Throw({"store"}, {"store"})
               ELSE Finish(List(found),
                           {"store"} \cup (IF fulltext THEN {"cache"} ELSE {}))
    /\ UNCHANGED <<dbInitializing, rsVars, auxVars>>

\* loadByIds: the guard, then the store query.
LoadByIds ==
    /\ op = "loadByIds" /\ opc = "start"
    /\ IF dbInitializing
       THEN Finish(List(<<>>), {})
       ELSE \E ok \in BOOLEAN, found \in OpBatches :
               IF ok THEN Finish(List(found), {"store"})
               ELSE Throw({"store"}, {"store"})
    /\ UNCHANGED <<dbInitializing, rsVars, auxVars>>

\* update called by a caller of the service.
UpdateOp ==
    /\ op = "update" /\ opc = "start"
    /\ \E batch \in OpBatches : CallUpdate("update", batch, {})
    /\ UNCHANGED <<dbInitializing, rsVars, auxVars>>

\* updateWithCategorizer: the guard, loadByIds, the membership upsert, update.
UpdateWithCategorizer ==
    /\ op = "updateWithCategorizer" /\ opc = "start"
    /\ IF dbInitializing
       THEN Finish(Void, {})
       ELSE \E ok \in BOOLEAN, found \in OpBatches :
               IF ok THEN CallUpdate("update", found, {"store"})
               ELSE CallUpdateAfter("update", <<>>, {"store"}, {"store"})
    /\ UNCHANGED <<dbInitializing, rsVars, auxVars>>

\* ------------------------------------------------------------------ delete
\* The rows a delete call names, as the store holds them: with the names
\* their files have in managed storage.
StoredRows == {[i \in 1..Len(b) |-> Normalize(move(b[i]))] : b \in OpBatches}

\* The file references the store reports for the rows it removed: of every
\* row its primary reference, "" where it has none, and its supplementaries.
FilesOf(entities) ==
    LET RECURSIVE cat(_)
        cat(k) == IF k = 0 THEN <<>>
                  ELSE cat(k - 1) \o <<entities[k].mainURL>>
                                  \o entities[k].supURLs
    IN  cat(Len(entities))

\* const cacheIds = ids || paperEntities?.map(e => e._id)
cacheIds(entities) == {entities[i].id : i \in 1..Len(entities)}

\* The removeFile calls that toBeDeletedFiles.map issues: one per reference
\* that is not "".
Issued(urls) ==
    {[url |-> u, state |-> "inflight"] : u \in Range(urls) \ {EmptyURL}}

\* A Promise.all that resolves without waiting for its promises.
PromiseAllNotAwaited(calls) == TRUE

\* await Promise.all(...) resolves: every removeFile has succeeded.
PromiseAllResolved(calls) == \A c \in calls : c.state = "ok"

\* await Promise.all(...) rejects: a removeFile has failed.
PromiseAllRejected(calls) == \E c \in calls : c.state = "failed"

\* The variables of delete before a call.
DeleteIdle ==
    /\ delEntities = <<>>
    /\ rowsDeleted = FALSE
    /\ toBeDeletedFiles = <<>>
    /\ removeFileCalls = {}
    /\ evicted = NONE

\* delete up to the store's removal of the rows: the guard, the store handle,
\* _paperEntityRepository.delete and the files it reports.
Delete ==
    /\ op = "delete" /\ opc = "start"
    /\ IF dbInitializing
       THEN /\ Finish(Void, {})
            /\ UNCHANGED delVars
       ELSE \E ok \in BOOLEAN, entities \in StoredRows :
               /\ delEntities' = entities
               /\ UNCHANGED <<removeFileCalls, evicted>>
               /\ IF ~ok
                  THEN /\ Throw({"store"}, {"store"})
                       /\ UNCHANGED <<rowsDeleted, toBeDeletedFiles>>
                  ELSE /\ rowsDeleted' = TRUE
                       /\ toBeDeletedFiles' = FilesOf(entities)
                       /\ opc' = "removeFiles"
                       /\ effects' = effects \cup {"store"}
                       /\ UNCHANGED <<op, opRet, caught, faults>>
                       /\ PipeUnchanged
    /\ UNCHANGED <<dbInitializing, rsVars, catVars, filterVars, conVars>>

\* toBeDeletedFiles.map(...): a removeFile is called for every reported file.
DeleteRemoveFiles ==
    /\ op = "delete" /\ opc = "removeFiles"
    /\ removeFileCalls' = Issued(toBeDeletedFiles)
    /\ opc' = "awaitFiles"
    /\ effects' = effects \cup
                     (IF Issued(toBeDeletedFiles) = {} THEN {} ELSE {"file"})
    /\ UNCHANGED <<op, opRet, caught, faults>>
    /\ PipeUnchanged
    /\ UNCHANGED <<delEntities, rowsDeleted, toBeDeletedFiles, evicted>>
    /\ UNCHANGED <<dbInitializing, rsVars, catVars, filterVars, conVars>>

\* One removeFile that delete issued settles: the file is removed, or the
\* call fails.
RemoveFileSettles(u) ==
    /\ [url |-> u, state |-> "inflight"] \in removeFileCalls
    /\ \E ok \in BOOLEAN :
          /\ removeFileCalls' =
                (removeFileCalls \ {[url |-> u, state |-> "inflight"]})
                \cup {[url |-> u, state |-> IF ok THEN "ok" ELSE "failed"]}
          /\ faults' = faults \cup (IF ok THEN {} ELSE {"file"})
    /\ UNCHANGED <<opVars, effects>>
    /\ PipeUnchanged
    /\ UNCHANGED <<delEntities, rowsDeleted, toBeDeletedFiles, evicted>>
    /\ UNCHANGED <<dbInitializing, rsVars, catVars, filterVars, conVars>>

\* delete after await Promise.all: when it rejects the throw reaches the
\* error boundary; when it resolves the identities are evicted from the
\* cache, which is awaited and may throw as well.
DeleteAfterFiles ==
    /\ op = "delete" /\ opc = "awaitFiles"
    /\ IF PromiseAllRejected(removeFileCalls)
       THEN /\ Throw({}, {})
            /\ UNCHANGED evicted
       ELSE /\ PromiseAllResolved(removeFileCalls)
            /\ \E ok \in BOOLEAN :
                  IF ok THEN /\ evicted' = [ids |-> cacheIds(delEntities)]
                             /\ Finish(Void, {"cache"})
                  ELSE /\ UNCHANGED evicted
                       /\ Throw({"cache"}, {"cache"})
    /\ UNCHANGED <<delEntities, rowsDeleted, toBeDeletedFiles, removeFileCalls>>
    /\ UNCHANGED <<dbInitializing, rsVars, catVars, filterVars, conVars>>

\* deleteSup: the file is removed, then update is called on the one draft.
\* There is no guard before the removal.
DeleteSup ==
    /\ op = "deleteSup" /\ opc = "start"
    /\ \E ok \in BOOLEAN, batch \in Batches(1) :
          IF ~ok THEN Throw({"file"}, {"file"})
          ELSE CallUpdate("update", batch, {"file"})
    /\ UNCHANGED <<dbInitializing, rsVars, auxVars>>

\* create: the scrape of the files, then update. There is no guard before
\* the scrape.
Create ==
    /\ op = "create" /\ opc = "start"
    /\ \E ok \in BOOLEAN, scraped \in OpBatches :
          IF ~ok THEN Throw({"scrape"}, {"scrape"})
          ELSE CallUpdate("update", scraped, {"scrape"})
    /\ UNCHANGED <<dbInitializing, rsVars, auxVars>>

\* createIntoCategorizer: the guard, then create (its scrape and its update).
CreateIntoCategorizer ==
    /\ op = "createIntoCategorizer" /\ opc = "start"
    /\ IF dbInitializing
       THEN Finish(List(<<>>), {})
       ELSE \E ok \in BOOLEAN, scraped \in OpBatches :
               IF ~ok
               THEN CallUpdateAfter("update", <<>>, {"scrape"}, {"scrape"})
               ELSE CallUpdate("create", scraped, {"scrape"})
    /\ UNCHANGED <<dbInitializing, rsVars, auxVars>>

\* createIntoCategorizer after create: the memberships are replaced and
\* update is called on what create returned.
CreateIntoCategorizerUpdate ==
    /\ op = "createIntoCategorizer" /\ opc = "create"
    /\ pc = "done"
    /\ CallUpdate("update", ret, {})
    /\ UNCHANGED <<dbInitializing, rsVars, auxVars>>

\* scrape: the guard, the scrape, update.
Scrape ==
    /\ op = "scrape" /\ opc = "start"
    /\ IF dbInitializing
       THEN Finish(Void, {})
       ELSE \E ok \in BOOLEAN, scraped \in OpBatches :
               IF ~ok THEN Throw({"scrape"}, {"scrape"})
               ELSE CallUpdate("update", scraped, {"scrape"})
    /\ UNCHANGED <<dbInitializing, rsVars, auxVars>>

\* The time check alone, as it stands inside the preference's branch.
RematchDueAlways ==
    ~(now - lastRematchTime < Period - Tolerance)

\* The guard of scrapePreprint after the store's: the preference, then the
\* time since the last rematch.
RematchDue ==
    /\ allowRoutineMatch
    /\ ~(now - lastRematchTime < Period - Tolerance)

\* scrapePreprint called once: the guards, the query for the preprints, and
\* scrape on them (its scrape, then update).
ScrapePreprintOp ==
    /\ op = "scrapePreprint" /\ opc = "start"
    /\ IF dbInitializing \/ ~RematchDue
       THEN Finish(Void, {})
       ELSE \E ok \in BOOLEAN, scrapeOk \in BOOLEAN, scraped \in OpBatches :
               IF ~ok THEN Throw({"store"}, {"store"})
               ELSE IF ~scrapeOk
               THEN /\ opc' = "stamp"
                    /\ effects' = effects \cup {"store", "scrape"}
                    /\ faults' = faults \cup {"scrape"}
                    /\ UNCHANGED <<op, opRet, caught>>
                    /\ PipeUnchanged
               ELSE CallUpdate("preprint", scraped, {"store", "scrape"})
    /\ UNCHANGED <<dbInitializing, rsVars, auxVars>>

\* scrapePreprint after scrape has returned: lastRematchTime is set.
ScrapePreprintStamp ==
    /\ op = "scrapePreprint"
    /\ opc = "stamp" \/ (opc = "preprint" /\ pc = "done")
    /\ \E ok \in BOOLEAN :
          IF ok THEN /\ lastRematchTime' = now
                     /\ Finish(Void, {"preference"})
          ELSE /\ UNCHANGED lastRematchTime
               /\ Throw({"preference"}, {"preference"})
    /\ UNCHANGED <<dbInitializing, now, allowRoutineMatch, armed, timerAt, cyc,
                   ticks, auxVars>>

\* renameAll: the guard, load, the forced move of every draft, update.
RenameAll ==
    /\ op = "renameAll" /\ opc = "start"
    /\ IF dbInitializing
       THEN Finish(Void, {})
       ELSE \E ok \in BOOLEAN, found \in OpBatches :
               IF ~ok THEN Throw({"store", "file"}, {"file"})
               ELSE CallUpdate("update", found,
                               {"store"} \cup
                               (IF found = <<>> THEN {} ELSE {"file"}))
    /\ UNCHANGED <<dbInitializing, rsVars, auxVars>>

\* migrateLocaltoCloud: the local store is opened and read, then update is
\* called on its records. There is no guard before the local store is read.
MigrateLocaltoCloud ==
    /\ op = "migrateLocaltoCloud" /\ opc = "start"
    /\ \E ok \in BOOLEAN, entities \in OpBatches :
          IF ~ok THEN Throw({"store"}, {"store"})
          ELSE CallUpdate("update", entities, {"store"})
    /\ UNCHANGED <<dbInitializing, rsVars, auxVars>>

\* The update an operation called has returned, and the operation returns.
ReturnFromUpdate ==
    /\ opc = "update"
    /\ pc = "done"
    /\ Finish(IF op \in ListOps THEN List(ret) ELSE Void, {})
    /\ UNCHANGED <<dbInitializing, rsVars, auxVars>>

\* ------------------------------------------------------------- categorizers
\* The longest tag or folder list of a draft before the call, the number of
\* identities, and how often an operation is applied to the same draft.
MaxMemberships == 2
MaxCatId == 2
MaxApply == 2

\* An identity is an ObjectId or its hex string; `${id}` is the string.
CatIds == [rep : {"oid", "str"}, hex : 1..MaxCatId]
IdString(id) == id.hex

\* new PaperTag(categorizer), new PaperFolder(categorizer): a membership
\* with the categorizer's identity, as an ObjectId.
Membership(c) == [id |-> [rep |-> "oid", hex |-> IdString(c.id)]]

\* The tag or folder lists of a stored draft: their identities are ObjectIds.
MembershipLists ==
    UNION {[1..n -> {Membership([id |-> i]) : i \in CatIds}] :
              n \in 0..MaxMemberships}

\* A membership list that gets the new membership and keeps the old ones.
pushOnly(list, c) == Append(list, Membership(c))

\* A membership list replaced by the new membership alone.
onlyNew(list, c) == <<Membership(c)>>

\* list.filter(m => `${m._id}` !== `${categorizer._id}`), then
\* list.push(new ...(categorizer))
filterThenPush(list, c) ==
    Append(SelectSeq(list, LAMBDA m : IdString(m.id) # IdString(c.id)),
           Membership(c))

\* The body of updateWithCategorizer's map for one draft.
withCategorizer(d, c, t) ==
    IF t = "PaperTag"
    THEN [d EXCEPT !.tags = filterThenPush(d.tags, c)]
    ELSE IF t = "PaperFolder"
    THEN [d EXCEPT !.folders = filterThenPush(d.folders, c)]
    ELSE d

\* The body of createIntoCategorizer's map for one draft. The condition of
\* its if is the assignment type = CategorizerType.PaperTag, whose value is
\* the non-empty string assigned.
intoCategorizer(d, c, t) ==
    LET assigned == "PaperTag"
    IN  IF assigned # ""
        THEN [d EXCEPT !.tags = <<Membership(c)>>]
        ELSE IF assigned = "PaperFolder"
        THEN [d EXCEPT !.folders = <<Membership(c)>>]
        ELSE d

CategorizerIdle ==
    /\ catOp = "none"
    /\ categorizer = [id |-> [rep |-> "oid", hex |-> 1]]
    /\ type = "PaperTag"
    /\ paperEntityDraft = [tags |-> <<>>, folders |-> <<>>, title |-> "t"]
    /\ draftBefore = paperEntityDraft
    /\ applied = 0

\* updateWithCategorizer's map runs on the draft.
ApplyWithCategorizer ==
    /\ catOp = "updateWithCategorizer"
    /\ applied < MaxApply
    /\ paperEntityDraft' = withCategorizer(paperEntityDraft, categorizer, type)
    /\ applied' = applied + 1
    /\ UNCHANGED <<catOp, categorizer, type, draftBefore>>
    /\ UNCHANGED <<pipeVars, opVars, effects, faults, rsVars, delVars,
                   filterVars, conVars>>

\* createIntoCategorizer's map runs on the draft.
ApplyIntoCategorizer ==
    /\ catOp = "createIntoCategorizer"
    /\ applied < MaxApply
    /\ paperEntityDraft' = intoCategorizer(paperEntityDraft, categorizer, type)
    /\ applied' = applied + 1
    /\ UNCHANGED <<catOp, categorizer, type, draftBefore>>
    /\ UNCHANGED <<pipeVars, opVars, effects, faults, rsVars, delVars,
                   filterVars, conVars>>

\* ------------------------------------------------------ PaperFilterOptions
\* The longest search string, in tokens; the largest N of a [N DAYS] macro;
\* how often the same options are compiled.
MaxTokens == 4
MaxDays == 2
MaxCompiles == 2

\* A search string is a sequence of tokens: a comparison operator, a
\* [N DAYS] macro, another word of the predicate, or a newline. Tokens are
\* separated by one blank.
Operators == {"<", "<=", ">", ">="}
Tokens ==
    [t : {"op"}, v : Operators] \cup [t : {"days"}, n : 1..MaxDays]
        \cup {[t |-> "word"], [t |-> "nl"]}
SearchStrings == UNION {[1..n -> Tokens] : n \in 0..MaxTokens}

IsOp(tok) == tok.t = "op"
IsDays(tok) == tok.t = "days"

\* formatString({str, removeNewline: true, trimWhite: true})
formatString(str) == SelectSeq(str, LAMBDA tok : tok.t # "nl")

\* str.includes("<"), str.includes(">"): only operators hold these characters.
includes(str, ch) ==
    \E i \in 1..Len(str) :
        IsOp(str[i]) /\ str[i].v \in (IF ch = "<" THEN {"<", "<="}
                                                  ELSE {">", ">="})

\* match.replaceAll("<", ">") and match.replaceAll(">", "<") on the operator
\* of a match.
replaceLt(v) == CASE v = "<" -> ">" [] v = "<=" -> ">=" [] OTHER -> v
replaceGt(v) == CASE v = ">" -> "<" [] v = ">=" -> "<=" [] OTHER -> v

\* formatedSearch.match(/(<|<=|>|>=)\s*\[\d+ DAYS\]/g): the operators that
\* stand right before a macro, each with its macro, in order.
compareDateMatch(str) ==
    LET RECURSIVE from(_)
        from(i) == IF i >= Len(str) THEN <<>>
                   ELSE IF IsOp(str[i]) /\ IsDays(str[i + 1])
                   THEN <<[op |-> str[i], days |-> str[i + 1]]>> \o from(i + 2)
                   ELSE from(i + 1)
    IN  from(1)

\* str.replaceAll(match, replacement), the replacement being the match with
\* its operator changed to v.
replaceAll(str, match, v) ==
    [i \in 1..Len(str) |->
        IF i < Len(str) /\ str[i] = match.op /\ str[i + 1] = match.days
        THEN [t |-> "op", v |-> v]
        ELSE str[i]]

\* One pass of the loop over compareDateMatch.
InvertMatch(str, match) ==
    IF includes(str, "<")
    THEN replaceAll(str, match, replaceLt(match.op.v))
    ELSE IF includes(str, ">")
    THEN replaceAll(str, match, replaceGt(match.op.v))
    ELSE str

\* The loop over compareDateMatch.
InvertOperators(str) ==
    LET matches == compareDateMatch(str)
        RECURSIVE loop(_, _)
        loop(cur, k) == IF k > Len(matches) THEN cur
                        ELSE loop(InvertMatch(cur, matches[k]), k + 1)
    IN  loop(str, 1)

\* formatedSearch.match(/\[\d+ DAYS\]/g)
dateMatch(str) == SelectSeq(str, IsDays)

\* The date literal for n days before the clock's time t.
DateLiteral(t, n) == [t |-> "date", at |-> t - n * 86400]

\* The replacement of the macros: one date, computed from dateMatch[0], is
\* put in the place of every macro.
ReplaceDates(str, t) ==
    IF dateMatch(str) = <<>> THEN str
    ELSE LET date == DateLiteral(t, dateMatch(str)[1].n)
         IN  [i \in 1..Len(str) |-> IF IsDays(str[i]) THEN date ELSE str[i]]

\* The clause that update pushes for this.search.
SearchClause(str, mode, t) ==
    LET formatedSearch == formatString(str)
    IN  CASE mode = "general" ->
               [clause |-> "general", arg |-> formatedSearch]
          [] mode = "advanced" ->
               [clause |-> "advanced",
                arg |-> ReplaceDates(InvertOperators(formatedSearch), t)]
          [] mode = "fulltext" ->
               [clause |-> "fulltext", arg |-> formatedSearch]

\* this.filters as update builds it, from an empty list.
Compile(str, mode, flag, t) ==
    (IF str # <<>> THEN <<SearchClause(str, mode, t)>> ELSE <<>>)
    \o (IF flag THEN <<[clause |-> "flag", arg |-> <<>>]>> ELSE <<>>)

\* An update that stores the compiled search string as this.search.
searchOverwritten(str, mode, t) ==
    IF str # <<>> THEN SearchClause(str, mode, t).arg ELSE str

\* this.search after update({}): update works on the local formatedSearch.
searchKept(str, mode, t) == str

\* The options a PaperFilterOptions is built with: every search string in
\* advanced mode, the shortest strings in the other modes and with the flag.
FilterOptions ==
    [search : SearchStrings, searchMode : {"advanced"}, flaged : {FALSE}]
    \cup [search : {str \in SearchStrings : Len(str) <= 1},
          searchMode : {"general", "fulltext", "advanced"},
          flaged : BOOLEAN]

FilterIdle ==
    /\ search = <<>>
    /\ searchMode = "general"
    /\ flaged = FALSE
    /\ filters = <<>>
    /\ compiles = 0

\* update(options) with no key in options: the options are compiled again.
UpdateFilter ==
    /\ compiles < MaxCompiles
    /\ filters' = Compile(search, searchMode, flaged, now)
    /\ search' = searchKept(search, searchMode, now)
    /\ compiles' = compiles + 1
    /\ UNCHANGED <<searchMode, flaged>>
    /\ UNCHANGED <<pipeVars, opVars, effects, faults, rsVars, delVars, catVars,
                   conVars>>

\* -------------------------------------------- update calls that overlap
\* The calls of a behaviour that can overlap, and the largest batch of one.
MaxConcurrent == 2
MaxBatch == 2

\* No call is running: the runtime is between two tasks.
NoThread == 0

\* The kinds of call: update itself, and scrapePreprint, which ends in
\* scrape's call of update.
CallKinds == {"update", "scrapePreprint"}

ConcurrentIdle ==
    /\ conCalls = <<>>
    /\ thread = NoThread
    /\ inWrite = {}
    /\ storeWrites = <<>>

\* A persistence loop that waits for each write: the call gives way between
\* two writes.
YieldsThread(c) == NoThread

\* The persistence loop has no await: after a write the call runs on.
KeepsThread(c) == c

\* What the actions of the overlapping calls leave alone.
ConFrame ==
    UNCHANGED <<pipeVars, opVars, effects, faults, now, allowRoutineMatch,
                armed, timerAt, cyc, ticks, delVars, catVars, filterVars>>

\* Where a call is once its update has returned: update's caller is done,
\* scrapePreprint has lastRematchTime to set.
Returned(c) == IF conCalls[c].kind = "update" THEN "done" ELSE "returned"

\* update is called: its guard, and stage 1 is awaited.
ConUpdate(c) ==
    /\ thread = NoThread
    /\ conCalls[c].kind = "update"
    /\ conCalls[c].pc = "start"
    /\ conCalls' = [conCalls EXCEPT ![c].pc =
                    IF dbInitializing THEN "done" ELSE "relocate"]
    /\ UNCHANGED <<thread, inWrite, storeWrites, lastRematchTime>>
    /\ ConFrame

\* scrapePreprint is called: its guards, and the store handle is awaited.
ConScrapePreprint(c) ==
    /\ thread = NoThread
    /\ conCalls[c].kind = "scrapePreprint"
    /\ conCalls[c].pc = "start"
    /\ conCalls' = [conCalls EXCEPT ![c].pc =
                    IF dbInitializing \/ ~RematchDue THEN "done" ELSE "query"]
    /\ UNCHANGED <<thread, inWrite, storeWrites, lastRematchTime>>
    /\ ConFrame

\* scrapePreprint has the handle (or realm() threw): it loads the preprints
\* and calls scrape, which awaits the scrape service.
ConQuery(c) ==
    /\ thread = NoThread
    /\ conCalls[c].pc = "query"
    /\ \E ok \in BOOLEAN :
          conCalls' = [conCalls EXCEPT ![c].pc =
                          IF ok THEN "scrape" ELSE "done"]
    /\ UNCHANGED <<thread, inWrite, storeWrites, lastRematchTime>>
    /\ ConFrame

\* The scrape service is done: scrape calls update, which awaits stage 1. A
\* scrape that threw ends in scrape's error boundary.
ConScraped(c) ==
    /\ thread = NoThread
    /\ conCalls[c].pc = "scrape"
    /\ \E ok \in BOOLEAN :
          conCalls' = [conCalls EXCEPT ![c].pc =
                       IF ok THEN "relocate" ELSE "returned"]
    /\ UNCHANGED <<thread, inWrite, storeWrites, lastRematchTime>>
    /\ ConFrame

\* Stage 1 is done: the batch is normalised and the store handle is awaited.
\* A null result ends the call in update's error boundary.
ConRelocated(c) ==
    /\ thread = NoThread
    /\ conCalls[c].pc = "relocate"
    /\ \E ok \in BOOLEAN :
          conCalls' = [conCalls EXCEPT ![c].pc =
                       IF ok THEN "realm" ELSE Returned(c)]
    /\ UNCHANGED <<thread, inWrite, storeWrites, lastRematchTime>>
    /\ ConFrame

\* realm() settles. With the handle the call is ready to go on with the
\* persistence loop; an empty batch has nothing to write and update returns;
\* a throw ends the call in update's error boundary.
ConRealm(c) ==
    /\ thread = NoThread
    /\ conCalls[c].pc = "realm"
    /\ \E ok \in BOOLEAN :
          conCalls' = [conCalls EXCEPT ![c].pc =
                       IF ok /\ conCalls[c].n > 0 THEN "persist"
                       ELSE Returned(c)]
    /\ UNCHANGED <<thread, inWrite, storeWrites, lastRematchTime>>
    /\ ConFrame

\* The call enters _paperEntityRepository.update for its next draft: it is
\* the running call, or it runs now.
ConWriteBegins(c) ==
    /\ thread \in {NoThread, c}
    /\ conCalls[c].pc = "persist"
    /\ c \notin inWrite
    /\ thread' = c
    /\ inWrite' = inWrite \cup {c}
    /\ storeWrites' = Append(storeWrites, c)
    /\ UNCHANGED <<conCalls, lastRematchTime>>
    /\ ConFrame

\* _paperEntityRepository.update returns or throws, and the loop goes on.
\* After the last draft the rest of update follows without an await: the
\* reconciliation loop, the cache request, the return.
ConWriteEnds(c) ==
    /\ thread = c
    /\ c \in inWrite
    /\ inWrite' = inWrite \ {c}
    /\ LET k == conCalls[c].k + 1
       IN  IF k = conCalls[c].n
           THEN /\ conCalls' = [conCalls EXCEPT ![c].k = k,
                                                ![c].pc = Returned(c)]
                /\ thread' = NoThread
           ELSE /\ conCalls' = [conCalls EXCEPT ![c].k = k]
                /\ thread' = KeepsThread(c)
    /\ UNCHANGED <<storeWrites, lastRematchTime>>
    /\ ConFrame

\* scrape has returned to scrapePreprint: lastRematchTime is set.
ConStamp(c) ==
    /\ thread = NoThread
    /\ conCalls[c].pc = "returned"
    /\ lastRematchTime' = now
    /\ conCalls' = [conCalls EXCEPT ![c].pc = "done"]
    /\ UNCHANGED <<thread, inWrite, storeWrites>>
    /\ ConFrame

\* The variables of the parts a specification does not exercise.
AuxIdle ==
    /\ DeleteIdle
    /\ CategorizerIdle
    /\ FilterIdle
    /\ ConcurrentIdle

\* ------------------------------------------------ specification: one update
\* The scheduler's state where no scrapePreprint call has been made.
RescrapeIdle ==
    /\ now = Period
    /\ armed = FALSE
    /\ timerAt = -1
    /\ cyc = [c \in 1..MaxCalls |-> NoCall]
    /\ ticks = 0

InitUpdate ==
    /\ dbInitializing \in BOOLEAN
    /\ pc = "call"
    /\ op = "update"
    /\ opc = "update"
    /\ effects = {}
    /\ faults = {}
    /\ AuxIdle
    /\ opRet = NONE
    /\ caught = FALSE
    /\ lastRematchTime = 0
    /\ allowRoutineMatch = TRUE
    /\ RescrapeIdle
    /\ \E n \in 1..MaxDrafts : \E batch \in Batches(n) : PipeIdle(batch)

NextUpdate ==
    \/ UpdateGuard
    \/ \E i \in 1..N : RelocateWorker(i)
    \/ NormalizePaths
    \/ AcquireRealm
    \/ PersistOne
    \/ ReconcileOne
    \/ CacheAndReturn
    \/ \E i \in 1..N : RemoveDone(i)
    \/ \E k \in 1..Len(cacheReq) : CacheRefreshSettles(k)

Spec == InitUpdate /\ [][NextUpdate]_vars


\* ------------------------------------------ specification: every operation
InitOps ==
    /\ dbInitializing \in BOOLEAN
    /\ op \in Ops
    /\ opc = "start"
    /\ effects = {}
    /\ faults = {}
    /\ AuxIdle
    /\ opRet = NONE
    /\ caught = FALSE
    /\ pc = "none"
    /\ PipeIdle(<<>>)
    /\ IF op = "scrapePreprint"
       THEN /\ allowRoutineMatch \in BOOLEAN
            /\ lastRematchTime \in {0, Period}
       ELSE /\ allowRoutineMatch = TRUE
            /\ lastRematchTime = 0
    /\ RescrapeIdle

NextOps ==
    \/ Load
    \/ LoadByIds
    \/ UpdateOp
    \/ UpdateWithCategorizer
    \/ Delete
    \/ DeleteRemoveFiles
    \/ \E u \in Range(toBeDeletedFiles) : RemoveFileSettles(u)
    \/ DeleteAfterFiles
    \/ DeleteSup
    \/ Create
    \/ CreateIntoCategorizer
    \/ CreateIntoCategorizerUpdate
    \/ Scrape
    \/ ScrapePreprintOp
    \/ ScrapePreprintStamp
    \/ RenameAll
    \/ MigrateLocaltoCloud
    \/ ReturnFromUpdate
    \/ NextUpdate

SpecOps == InitOps /\ [][NextOps]_vars

\* Every collaborator call returns or throws, and the runtime goes on with
\* whatever can go on.
SpecOpsFair == SpecOps /\ WF_vars(NextOps)

\* ------------------------------------------------- the preprint rescrape
\* The calls of scrapePreprint are made in the order of their slots.
NextCall(c) ==
    /\ cyc[c].pc = "idle"
    /\ \A b \in 1..MaxCalls : b < c => cyc[b].pc # "idle"

\* A scrapePreprint call between its guards and its return.
Running(c) == cyc[c].pc \in {"realm", "scraping", "updating"}

RescrapePipeIdle ==
    UNCHANGED <<pc, input, paperEntityDrafts, workerLog, results, errors,
                fileMovedPaperEntityDrafts, updatedPaperEntityDrafts,
                writeLog, rows, files, removeCalls, moveFileCalls, ri,
                cacheReq, cacheSettled, ret, threw, opVars, effects, faults,
                auxVars>>

\* The store has finished initializing: the constructor's callback registers
\* the recurring task.
DbInitialized ==
    /\ dbInitializing
    /\ dbInitializing' = FALSE
    /\ armed' = TRUE
    /\ UNCHANGED <<now, lastRematchTime, allowRoutineMatch, timerAt, cyc, ticks>>
    /\ RescrapePipeIdle

\* scrapePreprint up to its first await: the store's guard, the preference,
\* the time since the last rematch. A call that passes waits for the store
\* handle.
ScrapePreprint(c) ==
    /\ NextCall(c)
    /\ cyc' = [cyc EXCEPT ![c] =
                  [NoCall EXCEPT
                     !.firedAt = now,
                     !.passed = ~dbInitializing /\ RematchDue,
                     !.pc = IF ~dbInitializing /\ RematchDue
                            THEN "realm" ELSE "done"]]
    /\ UNCHANGED <<dbInitializing, now, lastRematchTime, allowRoutineMatch,
                   armed, ticks>>
    /\ RescrapePipeIdle

\* The registered task fires: a first time once it is registered, then a
\* period after it last fired.
TimerFire(c) ==
    /\ armed
    /\ timerAt = -1 \/ now - timerAt >= Period
    /\ timerAt' = now
    /\ ScrapePreprint(c)

\* Another caller of the service calls scrapePreprint.
CallScrapePreprint(c) ==
    /\ UNCHANGED timerAt
    /\ ScrapePreprint(c)

\* The store handle is there (or realm() threw, which ends the call): the
\* preprints are loaded and scrape is called on them, which passes its own
\* guard and starts the scrape.
RescrapeQuery(c) ==
    /\ cyc[c].pc = "realm"
    /\ \E ok \in BOOLEAN :
          /\ cyc' = [cyc EXCEPT ![c] =
                        IF ~ok THEN [@ EXCEPT !.pc = "done"]
                        ELSE IF dbInitializing
                        THEN [@ EXCEPT !.queried = TRUE, !.stamped = TRUE,
                                       !.pc = "done"]
                        ELSE [@ EXCEPT !.queried = TRUE, !.scraped = TRUE,
                                       !.pc = "scraping"]]
          /\ lastRematchTime' =
                IF ok /\ dbInitializing THEN now ELSE lastRematchTime
    /\ UNCHANGED <<dbInitializing, now, allowRoutineMatch, armed, timerAt,
                   ticks>>
    /\ RescrapePipeIdle

\* A scrapePreprint that returns without setting lastRematchTime.
NoStamp(c) ==
    /\ UNCHANGED lastRematchTime
    /\ cyc' = [cyc EXCEPT ![c] = [@ EXCEPT !.pc = "done"]]

\* What scrapePreprint does once scrape has returned.
Stamp(c) ==
    /\ lastRematchTime' = now
    /\ cyc' = [cyc EXCEPT ![c] = [@ EXCEPT !.stamped = TRUE, !.pc = "done"]]

\* The scrape ends. If it threw, scrape's error boundary returns and the
\* cycle is stamped; otherwise scrape calls update and waits for it.
RescrapeScraped(c) ==
    /\ cyc[c].pc = "scraping"
    /\ \E ok \in BOOLEAN :
          IF ok
          THEN /\ cyc' = [cyc EXCEPT ![c] = [@ EXCEPT !.pc = "updating"]]
               /\ UNCHANGED lastRematchTime
          ELSE /\ lastRematchTime' = now
               /\ cyc' = [cyc EXCEPT ![c] = [@ EXCEPT !.scrapeFailed = TRUE,
                                                      !.stamped = TRUE,
                                                      !.pc = "done"]]
    /\ UNCHANGED <<dbInitializing, now, allowRoutineMatch, armed, timerAt, ticks>>
    /\ RescrapePipeIdle

\* update returns to scrape, scrape to scrapePreprint: the cycle is stamped.
RescrapeUpdated(c) ==
    /\ cyc[c].pc = "updating"
    /\ Stamp(c)
    /\ UNCHANGED <<dbInitializing, now, allowRoutineMatch, armed, timerAt, ticks>>
    /\ RescrapePipeIdle

\* Time passes.
Tick ==
    /\ ticks < MaxTicks
    /\ ticks' = ticks + 1
    /\ \E d \in TickSteps : now' = now + d
    /\ UNCHANGED <<dbInitializing, lastRematchTime, allowRoutineMatch, armed,
                   timerAt, cyc>>
    /\ RescrapePipeIdle

InitRescrape ==
    /\ dbInitializing = TRUE
    /\ pc = "none"
    /\ PipeIdle(<<>>)
    /\ op = "scrapePreprint"
    /\ opc = "none"
    /\ effects = {}
    /\ faults = {}
    /\ AuxIdle
    /\ opRet = NONE
    /\ caught = FALSE
    /\ allowRoutineMatch \in BOOLEAN
    /\ lastRematchTime \in {0, Period}
    /\ RescrapeIdle

NextRescrape ==
    \/ DbInitialized
    \/ \E c \in 1..MaxCalls : TimerFire(c)
    \/ \E c \in 1..MaxCalls : CallScrapePreprint(c)
    \/ \E c \in 1..MaxCalls : RescrapeQuery(c)
    \/ \E c \in 1..MaxCalls : RescrapeScraped(c)
    \/ \E c \in 1..MaxCalls : RescrapeUpdated(c)
    \/ Tick

SpecRescrape == InitRescrape /\ [][NextRescrape]_vars

\* ------------------------------------------ specification: categorizers
InitCategorizer ==
    /\ dbInitializing = FALSE
    /\ pc = "none"
    /\ PipeIdle(<<>>)
    /\ op = "none"
    /\ opc = "none"
    /\ opRet = NONE
    /\ caught = FALSE
    /\ effects = {}
    /\ faults = {}
    /\ lastRematchTime = 0
    /\ allowRoutineMatch = TRUE
    /\ RescrapeIdle
    /\ DeleteIdle
    /\ catOp \in {"updateWithCategorizer", "createIntoCategorizer"}
    /\ categorizer \in [id : CatIds]
    /\ type \in {"PaperTag", "PaperFolder"}
    /\ paperEntityDraft \in [tags : MembershipLists, folders : MembershipLists,
                            title : {"t"}]
    /\ draftBefore = paperEntityDraft
    /\ applied = 0
    /\ FilterIdle
    /\ ConcurrentIdle

NextCategorizer ==
    \/ ApplyWithCategorizer
    \/ ApplyIntoCategorizer

SpecCategorizer == InitCategorizer /\ [][NextCategorizer]_vars

\* -------------------------------------- specification: PaperFilterOptions
InitFilter ==
    /\ dbInitializing = FALSE
    /\ pc = "none"
    /\ PipeIdle(<<>>)
    /\ op = "none"
    /\ opc = "none"
    /\ opRet = NONE
    /\ caught = FALSE
    /\ effects = {}
    /\ faults = {}
    /\ lastRematchTime = 0
    /\ allowRoutineMatch = TRUE
    /\ RescrapeIdle
    /\ DeleteIdle
    /\ CategorizerIdle
    /\ ConcurrentIdle
    /\ \E o \in FilterOptions :
          /\ search = o.search
          /\ searchMode = o.searchMode
          /\ flaged = o.flaged
    /\ filters = <<>>
    /\ compiles = 0

NextFilter == UpdateFilter

SpecFilter == InitFilter /\ [][NextFilter]_vars

\* --------------------------------- specification: overlapping update calls
InitConcurrent ==
    /\ dbInitializing \in BOOLEAN
    /\ pc = "none"
    /\ PipeIdle(<<>>)
    /\ op = "none"
    /\ opc = "none"
    /\ opRet = NONE
    /\ caught = FALSE
    /\ effects = {}
    /\ faults = {}
    /\ lastRematchTime = 0
    /\ allowRoutineMatch = TRUE
    /\ RescrapeIdle
    /\ DeleteIdle
    /\ CategorizerIdle
    /\ FilterIdle
    /\ conCalls \in [1..MaxConcurrent ->
                     [kind : CallKinds, n : 0..MaxBatch, pc : {"start"},
                      k : {0}]]
    /\ thread = NoThread
    /\ inWrite = {}
    /\ storeWrites = <<>>

NextConcurrent ==
    \E c \in 1..MaxConcurrent :
        \/ ConUpdate(c)
        \/ ConScrapePreprint(c)
        \/ ConQuery(c)
        \/ ConScraped(c)
        \/ ConRelocated(c)
        \/ ConRealm(c)
        \/ ConWriteBegins(c)
        \/ ConWriteEnds(c)
        \/ ConStamp(c)

SpecConcurrent == InitConcurrent /\ [][NextConcurrent]_vars

\* ------------------------------------------------------------------ claims
Finished(i) == workerLog[i] # NONE
Written == {writeLog[j].index : j \in 1..Len(writeLog)}
SucceededWrites == SelectSeq(writeLog, LAMBDA w : w.success)

\* C1: when update has returned, its result is exactly the drafts whose store
\* write succeeded, in input order, with no entry and no null for a draft
\* whose write failed or threw.
C1_ReturnsExactlyPersisted ==
    pc = "done" =>
        /\ Len(ret) = Len(SucceededWrites)
        /\ \A j \in 1..Len(ret) :
              /\ ret[j] # NULL
              /\ ret[j] = SucceededWrites[j].draft
              /\ ret[j].id = input[SucceededWrites[j].index].id
        /\ \A j \in 1..Len(ret), k \in 1..Len(ret) :
              j < k => ret[j].id < ret[k].id

\* A two-draft batch returned one draft: one write failed, one succeeded.
C1_Witness ==
    /\ pc = "done"
    /\ Len(writeLog) = 2
    /\ ~writeLog[1].success
    /\ writeLog[2].success
    /\ Len(ret) = 1
    /\ ret[1].id = 2

\* The files stage 1 put into managed storage for the draft at index i.
RelocatedInStage1(i) ==
    IF workerLog[i].out = "moved"
    THEN {ManagedName(u) : u \in ToRelocate(workerLog[i].moveArg)}
    ELSE {}

\* C2: once update has returned, no file relocated for a draft whose store
\* write failed is left in managed storage, and the files relocated for the
\* drafts that were written are all still there.
C2_NoOrphanAfterCall ==
    pc = "done" =>
        \A j \in 1..Len(writeLog) :
            LET i == writeLog[j].index
            IN  /\ ~writeLog[j].success => files[i] = {}
                /\ writeLog[j].success => files[i] = RelocatedInStage1(i)

\* C3: every draft handed to the record store has no absolute reference: its
\* primary reference is blank when the relocation stage left it absolute and
\* the base name of what the stage left otherwise, and its supplementary
\* references are the non-absolute ones the stage left, in order.
C3_NoAbsolutePathPersisted ==
    \A j \in 1..Len(writeLog) :
        LET d == writeLog[j].draft
            r == results[writeLog[j].index]
            kept == {k \in 1..Len(r.supURLs) : ~r.supURLs[k].abs}
        IN  /\ ~d.mainURL.abs
            /\ \A k \in 1..Len(d.supURLs) : ~d.supURLs[k].abs
            /\ (r.mainURL.abs /\ r.mainURL.segs # <<>>) => d.mainURL = EmptyURL
            /\ ~r.mainURL.abs =>
                  /\ Len(d.mainURL.segs) = (IF r.mainURL.segs = <<>> THEN 0 ELSE 1)
                  /\ r.mainURL.segs # <<>> =>
                        d.mainURL.segs[1] = r.mainURL.segs[Len(r.mainURL.segs)]
            /\ Len(d.supURLs) = Cardinality(kept)
            /\ Range(d.supURLs) = {r.supURLs[k] : k \in kept}

\* A draft whose relocation threw reached the store: its absolute primary
\* reference was blanked, one of its two supplementary references dropped.
C3_Witness ==
    \E j \in 1..Len(writeLog) :
        LET r == results[writeLog[j].index]
        IN  /\ r.mainURL.abs
            /\ writeLog[j].draft.mainURL = EmptyURL
            /\ Len(r.supURLs) = 2
            /\ Len(writeLog[j].draft.supURLs) = 1

\* C4: a draft whose primary reference is non-empty and not accessible is
\* given to move with the reference cleared, is an error of the relocation
\* stage only if move itself threw, reaches the store with an empty primary
\* reference, and is returned when its store write succeeded.
C4_MissingFileCleared ==
    \A i \in 1..N :
        (Finished(i) /\ input[i].mainURL # EmptyURL /\ ~workerLog[i].accessible)
        =>  /\ workerLog[i].moveArg.mainURL = EmptyURL
            /\ (i \in errors => workerLog[i].out = "throw")
            /\ \A j \in 1..Len(writeLog) :
                  writeLog[j].index = i =>
                     /\ writeLog[j].draft.mainURL = EmptyURL
                     /\ (pc = "done" /\ writeLog[j].success) =>
                           \E k \in 1..Len(ret) :
                              ret[k].id = input[i].id /\ ret[k].mainURL = EmptyURL

\* A draft with a missing primary file was written and returned.
C4_Witness ==
    /\ pc = "done"
    /\ \E i \in 1..N :
          /\ input[i].mainURL # EmptyURL
          /\ Finished(i)
          /\ ~workerLog[i].accessible
          /\ workerLog[i].out = "moved"
          /\ \E k \in 1..Len(ret) : ret[k].id = i

Thrown == {i \in 1..N : Finished(i) /\ workerLog[i].out = "throw"}
Relocated == {i \in 1..N : Finished(i) /\ workerLog[i].out = "moved"}

\* C5: when the relocation stage has finished and the worker of exactly one
\* draft k threw while the others relocated, the results are index-aligned
\* with the input, entry k is the caller's draft (its primary reference
\* cleared if the file was missing, otherwise untouched), every other entry
\* holds no absolute reference any more, errors holds k alone, and every
\* draft is written once the store handle is there.
C5_OneWorkerThrows ==
    ((\A i \in 1..N : Finished(i)) /\ Cardinality(Thrown) = 1
        /\ Relocated = (1..N) \ Thrown)
    =>  /\ DOMAIN results = DOMAIN input
        /\ errors = Thrown
        /\ \A k \in Thrown :
              /\ results[k] = workerLog[k].moveArg
              /\ results[k].id = input[k].id
              /\ results[k].supURLs = input[k].supURLs
              /\ results[k].mainURL =
                    (IF workerLog[k].accessible THEN input[k].mainURL
                     ELSE EmptyURL)
        /\ \A i \in Relocated :
              /\ results[i].id = input[i].id
              /\ ~results[i].mainURL.abs
              /\ \A s \in Range(results[i].supURLs) : ~s.abs
              /\ Len(results[i].supURLs) = Len(input[i].supURLs)
        /\ pc \in {"reconcile", "cache"} => Written = 1..N

\* Two drafts, the worker of the second threw, and both were written.
C5_Witness ==
    /\ N = 2
    /\ Thrown = {2}
    /\ Relocated = {1}
    /\ Len(writeLog) = 2
    /\ results[2].mainURL.abs

\* C6: the store writes are attempted in input order, one per draft; a write
\* that fails or throws nulls that draft's entry alone and leaves no row for
\* it, and once the persistence stage is over every draft has been written
\* exactly once.
C6_EveryDraftWrittenOnce ==
    /\ \A j \in 1..Len(writeLog) :
          /\ writeLog[j].index = j
          /\ writeLog[j].draft = fileMovedPaperEntityDrafts[j]
          /\ (updatedPaperEntityDrafts[j] = NULL) = ~writeLog[j].success
          /\ (rows[j] = NULL) = ~writeLog[j].success
    /\ Len(updatedPaperEntityDrafts) = Len(writeLog)
    /\ pc \in {"reconcile", "cache"} => Len(writeLog) = N
    /\ (pc = "done" /\ ~threw /\ ~dbInitializing) => Len(writeLog) = N

\* The first write of two failed and the second was still made.
C6_Witness ==
    /\ Len(writeLog) = 2
    /\ ~writeLog[1].success
    /\ writeLog[2].success
    /\ rows[1] = NULL
    /\ rows[2] # NULL

\* C18: once update's reconciliation loop has run, for every draft that was
\* written and whose row holds a file name other than the one its file was
\* relocated under, the rename of the file to the store's name has been
\* issued.
C18_RenamedToStoreName ==
    pc \in {"cache", "done"} /\ ~threw /\ Len(writeLog) = N =>
        \A k \in 1..N :
            (writeLog[k].success
               /\ rows[k].mainURL # fileMovedPaperEntityDrafts[k].mainURL)
            => k \in moveFileCalls

\* C19: update requests the full-text cache refresh once per call, for
\* exactly the drafts whose write succeeded, and does not wait for it. A
\* call makes at most one request; a call that passes the guard and is not
\* ended by the error boundary has made exactly one when it returns, for
\* the written drafts in order; a refresh settles only after update has
\* returned, and whether and how it settles changes nothing of the result.
C19_CacheRequestedOnceNotAwaited ==
    /\ [](Len(cacheReq) <= 1)
    /\ [](pc = "done" /\ ~threw /\ ~dbInitializing =>
            /\ Len(cacheReq) = 1
            /\ Len(cacheReq[1]) = Len(SucceededWrites)
            /\ \A j \in 1..Len(SucceededWrites) :
                  cacheReq[1][j] = SucceededWrites[j].draft)
    /\ [](cacheSettled # {} => pc = "done")
    /\ [][pc = "done" => (pc' = pc /\ ret' = ret /\ threw' = threw)]_pipeVars

\* update has returned one of two drafts, the other write having failed;
\* the refresh it requested for that draft has not finished.
C19_Witness ==
    /\ pc = "done"
    /\ N = 2
    /\ Len(cacheReq) = 1
    /\ Len(cacheReq[1]) = 1
    /\ ret = cacheReq[1]
    /\ cacheSettled = {}

\* C8: no store write before every relocation worker has finished, no file
\* reconciliation before every store write has been made, and the cache
\* request and the return of update only after every reconciliation
\* operation, removals included, has completed.
C8_StagesComplete ==
    /\ writeLog # <<>> => \A i \in 1..N : Finished(i)
    /\ (ri > 1 \/ removeCalls # {} \/ moveFileCalls # {}) => Len(writeLog) = N
    /\ (cacheReq # <<>> \/ pc = "done") => removeCalls = {}


\* C7: a call made while the record store is initializing uses no
\* collaborator (no file operation, no scrape, no store access, no cache
\* operation) and returns the empty result.
C7_InitializingShortCircuits ==
    dbInitializing =>
        /\ effects = {}
        /\ opc = "done" =>
              opRet = IF op \in ListOps THEN List(<<>>) ELSE Void


\* C9: at most one rescrape cycle is between its guards and its return at
\* any time.
C9_AtMostOneRunning ==
    Cardinality({c \in 1..MaxCalls : Running(c)}) <= 1

\* C10: when a fire that passed the guards is followed, less than
\* Period - Tolerance seconds later, by a second fire, the second fire makes
\* no store query, no scrape, and does not set lastRematchTime.
C10_SecondFireSkips ==
    \A c1 \in 1..MaxCalls, c2 \in 1..MaxCalls :
        (/\ c1 < c2
         /\ cyc[c1].passed
         /\ cyc[c2].pc # "idle"
         /\ cyc[c2].firedAt - cyc[c1].firedAt < Period - Tolerance)
        => (~cyc[c2].queried /\ ~cyc[c2].scraped /\ ~cyc[c2].stamped)

\* C11: no public operation surfaces a fault. Whatever collaborator fails,
\* the operation completes; it returns a list when it is list-returning and
\* nothing otherwise; when its error boundary caught a throw the result is
\* its default, [] or nothing; and a failure after it has returned (an
\* unawaited cache refresh or file removal) does not change the result.
C11_NoFaultSurfaces ==
    /\ [](opc = "done" =>
            IF op \in {"load", "loadByIds", "update", "create",
                       "createIntoCategorizer"}
            THEN /\ opRet.kind = "list"
                 /\ caught => opRet = List(<<>>)
            ELSE opRet = Void)
    /\ [](pc = "done" /\ threw => ret = <<>>)
    /\ <>(opc = "done")
    /\ [][opc = "done" => opRet' = opRet]_<<opc, opRet>>

\* delete has returned nothing after one of its removeFile calls failed.
C11_Witness ==
    /\ op = "delete"
    /\ opc = "done"
    /\ caught
    /\ "file" \in faults
    /\ opRet = Void

\* The memberships of the kind the operation was given.
OfKind(d) == IF type = "PaperTag" THEN d.tags ELSE d.folders
OfOtherKind(d) == IF type = "PaperTag" THEN d.folders ELSE d.tags
SameIdentity(list) ==
    {k \in 1..Len(list) : IdString(list[k].id) = IdString(categorizer.id)}

\* C12: updateWithCategorizer is an idempotent upsert. After one or more
\* applications of the same tag (or folder) to a draft, the draft holds
\* exactly one membership with the categorizer's identity, and a further
\* application leaves the draft as it is.
C12_IdempotentUpsert ==
    /\ [](catOp = "updateWithCategorizer" /\ applied >= 1 =>
            Cardinality(SameIdentity(OfKind(paperEntityDraft))) = 1)
    /\ [][catOp = "updateWithCategorizer" /\ applied >= 1 =>
            paperEntityDraft' = paperEntityDraft]_paperEntityDraft

\* The categorizer, its identity given as a string, was applied twice to a
\* draft that held it already, next to another membership of its kind.
C12_Witness ==
    /\ catOp = "updateWithCategorizer"
    /\ applied = 2
    /\ categorizer.id.rep = "str"
    /\ Cardinality(SameIdentity(OfKind(draftBefore))) = 1
    /\ Len(OfKind(draftBefore)) = 2
    /\ Len(OfKind(paperEntityDraft)) = 2

\* C13: createIntoCategorizer with kind k replaces the memberships of kind
\* k by the single new membership and leaves those of the other kind as
\* they were.
C13_ReplacesOwnKind ==
    catOp = "createIntoCategorizer" /\ applied >= 1 =>
        /\ OfKind(paperEntityDraft) = <<Membership(categorizer)>>
        /\ OfOtherKind(paperEntityDraft) = OfOtherKind(draftBefore)

\* The search string as update reads it, and the advanced clause compiled
\* from it.
Formatted == formatString(search)
Compiled == filters[1].arg
CompiledAdvanced == compiles >= 1 /\ searchMode = "advanced" /\ search # <<>>
Inverse(v) ==
    CASE v = "<" -> ">" [] v = "<=" -> ">=" [] v = ">" -> "<" [] v = ">=" -> "<="

\* C14: in advanced mode every comparison operator right before a [N DAYS]
\* token is inverted in the compiled predicate, whatever other operators
\* the string holds, and every other operator is left as it is.
C14_EveryDateOperatorInverted ==
    CompiledAdvanced =>
        \A i \in 1..Len(Formatted) :
            IsOp(Formatted[i]) =>
                Compiled[i] =
                    IF i < Len(Formatted) /\ IsDays(Formatted[i + 1])
                    THEN [t |-> "op", v |-> Inverse(Formatted[i].v)]
                    ELSE Formatted[i]

\* C15: in advanced mode every [N DAYS] token is replaced by the date of now
\* minus its own N days, and no [N DAYS] token remains.
C15_EveryMacroItsOwnDate ==
    CompiledAdvanced =>
        \A i \in 1..Len(Formatted) :
            /\ ~IsDays(Compiled[i])
            /\ IsDays(Formatted[i]) =>
                  Compiled[i] = DateLiteral(now, Formatted[i].n)

\* C16: compiling is idempotent on the options. With the clock held fixed no
\* compile changes the stored search string, and every compile after the
\* first leaves the compiled filters, and so the predicate string, as they
\* are: the operators are inverted once from the stored string, never twice.
C16_CompileIdempotent ==
    /\ [][search' = search]_filterVars
    /\ [][compiles >= 1 => filters' = filters]_filterVars
    /\ [](CompiledAdvanced /\ Len(Formatted) = 2 /\ IsOp(Formatted[1])
            /\ IsDays(Formatted[2]) /\ Formatted[1].v \in {">", ">="}
          => Compiled[1].v = Inverse(Formatted[1].v))

\* The options "> [1 DAYS]" were compiled twice in advanced mode: the filter
\* holds the operator inverted once.
C16_Witness ==
    /\ compiles = 2
    /\ searchMode = "advanced"
    /\ search = <<[t |-> "op", v |-> ">"], [t |-> "days", n |-> 1]>>
    /\ filters = <<[clause |-> "advanced",
                    arg |-> <<[t |-> "op", v |-> "<"],
                              DateLiteral(now, 1)>>]>>

\* The files of the deleted rows, and the removeFile calls in a given state.
ReportedFiles == Range(toBeDeletedFiles) \ {EmptyURL}
RemoveFileUrls(st) == {c.url : c \in {x \in removeFileCalls : x.state = st}}
Attempted == {c.url : c \in removeFileCalls}

\* C17: delete tolerates the failure of a file removal. When delete has
\* returned and the removal of one file has failed, the removal of every
\* other reported file has been attempted and the cache entries of all
\* deleted identities have been evicted.
C17_FileFailureTolerated ==
    (op = "delete" /\ opc = "done" /\ RemoveFileUrls("failed") # {}) =>
        /\ Attempted = ReportedFiles
        /\ evicted = [ids |-> cacheIds(delEntities)]

\* C20: delete keeps its order. A file removal is issued only once the store
\* has removed the rows; the cache eviction is issued only when every file
\* removal of the call has completed; and only files that the store
\* reported for the deleted rows are removed.
C20_DeleteOrder ==
    /\ removeFileCalls # {} => rowsDeleted
    /\ evicted # NONE =>
          /\ rowsDeleted
          /\ RemoveFileUrls("ok") = ReportedFiles
          /\ evicted = [ids |-> cacheIds(delEntities)]
    /\ Attempted \subseteq Range(FilesOf(delEntities)) \ {EmptyURL}

\* delete has evicted the identity of a row after its three files were
\* removed.
C20_Witness ==
    /\ op = "delete"
    /\ opc = "done"
    /\ evicted # NONE
    /\ Cardinality(RemoveFileUrls("ok")) = 3

\* C21: with the preference allowRoutineMatch off, a fire of the registered
\* task ends at the preference's test whatever lastRematchTime is: no call
\* of scrapePreprint passes the guards, queries the store, scrapes or waits
\* for update, lastRematchTime is never written, and the task stays
\* registered.
C21_PreferenceOffFrame ==
    /\ [](~allowRoutineMatch =>
            \A c \in 1..MaxCalls :
                /\ cyc[c].pc \in {"idle", "done"}
                /\ ~cyc[c].passed
                /\ ~cyc[c].queried
                /\ ~cyc[c].scraped
                /\ ~cyc[c].stamped)
    /\ [][~allowRoutineMatch =>
            /\ lastRematchTime' = lastRematchTime
            /\ armed => armed']_vars

\* The task has fired with the preference off at a time when the rematch
\* would have been due.
C21_Witness ==
    /\ ~allowRoutineMatch
    /\ armed
    /\ ~dbInitializing
    /\ \E c \in 1..MaxCalls :
          /\ cyc[c].pc = "done"
          /\ timerAt = cyc[c].firedAt
          /\ ~(cyc[c].firedAt - lastRematchTime < Period - Tolerance)

\* The memberships of a list whose identity differs from the categorizer's.
Unrelated(list) ==
    SelectSeq(list, LAMBDA m : IdString(m.id) # IdString(categorizer.id))

NullMoved == {i \in 1..N : Finished(i) /\ workerLog[i].out = "null"}

\* C23: a null result of move for one draft of a batch is a per-item
\* relocation failure. When update has ended and move yielded null for some
\* draft, the call was not ended by its error boundary, a store write was
\* made for every other draft of the batch, and the other drafts whose write
\* succeeded are in the result.
C23_NullMoveTolerated ==
    pc = "done" /\ NullMoved # {} =>
        /\ ~threw
        /\ \A j \in 1..N \ NullMoved :
              /\ j \in Written
              /\ (\E w \in Range(writeLog) : w.index = j /\ w.success) =>
                    \E k \in 1..Len(ret) : ret[k].id = j

\* C24: files and rows stay consistent whatever step of update fails. When
\* an update call has ended, normally or through its error boundary, every
\* draft for which the call left a relocated file in managed storage has a
\* row in the store, or the removal of its files has been issued.
C24_ConsistentWhenAStepFails ==
    pc = "done" =>
        \A i \in 1..N :
            files[i] # {} => rows[i] # NULL \/ i \in removeCalls

\* The calls that have written some but not all of their batch.
MidBatch ==
    {c \in 1..Len(conCalls) :
        0 < conCalls[c].k /\ conCalls[c].k < conCalls[c].n}

\* C25: the store writes of overlapping calls are never interleaved. With
\* several update calls, or update calls and rescrapes, under way, at most
\* one call is inside a store write at any moment, a call that has written
\* part of its batch is the running call until it has written all of it,
\* and in the order of the store writes the writes of one call are
\* adjacent.
C25_WritesNeverInterleaved ==
    /\ Cardinality(inWrite) <= 1
    /\ \A c \in MidBatch : thread = c
    /\ \A i \in 1..Len(storeWrites), j \in 1..Len(storeWrites),
          l \in 1..Len(storeWrites) :
          i < j /\ j < l /\ storeWrites[i] = storeWrites[l] =>
              storeWrites[j] = storeWrites[i]

\* A call is inside the second write of its batch while another call, a
\* rescrape, has the store handle and waits to write its own batch.
C25_Witness ==
    \E a \in 1..Len(conCalls), b \in 1..Len(conCalls) :
        /\ a # b
        /\ b \in inWrite
        /\ conCalls[b].k = 1
        /\ conCalls[b].kind = "update"
        /\ conCalls[a].kind = "scrapePreprint"
        /\ conCalls[a].pc = "persist"
        /\ conCalls[a].k = 0
        /\ conCalls[a].n = MaxBatch

====
